---- MODULE Spec2Model ----
(***************************************************************************)
(* The polymorphic identifier type ID of src/src/id.rs: a tagged union     *)
(* over bson ObjectId, String and i64, with its conversions to and from    *)
(* the bson value type, the serde data model, the juniper scalar value,    *)
(* plain strings and ObjectId.                                             *)
(*                                                                         *)
(* Text is a sequence of one-character strings.  An ObjectId is its 12     *)
(* bytes.  A 64-bit integer is kept as a mathematical integer in           *)
(* sign-magnitude form over base-2^16 limbs, so that the full i64 and u64  *)
(* ranges are present and the `as` casts wrap at their real widths.        *)
(***************************************************************************)
EXTENDS Integers, Sequences, FiniteSets, TLC

(***************************************************************************)
(* Bounds of the model.                                                    *)
(***************************************************************************)
\* number of sample object ids
MaxOids == 2
\* integers are taken at distance at most MaxDelta from each power of two
MaxDelta == 1
\* free text over TextAlphabet has at most this many characters
MaxTextLen == 1

(***************************************************************************)
(* 64-bit integers, as mathematical integers over base-2^16 limbs.         *)
(***************************************************************************)
Base == 2^16
Limbs == 1..5

\* a natural number: little-endian limbs, mag[1] the least significant
NatZero == [k \in Limbs |-> 0]

NatOfSmall(n) == [k \in Limbs |-> IF k = 1 THEN n % Base
                                  ELSE IF k = 2 THEN n \div Base ELSE 0]

RECURSIVE NatCarry(_, _, _, _)
NatCarry(a, b, k, c) ==
    IF k > Len(a) THEN <<>>
    ELSE LET s == a[k] + b[k] + c
         IN  <<s % Base>> \o NatCarry(a, b, k + 1, s \div Base)

NatAdd(a, b) == NatCarry(a, b, 1, 0)

RECURSIVE NatBorrow(_, _, _, _)
NatBorrow(a, b, k, c) ==
    IF k > Len(a) THEN <<>>
    ELSE LET d == a[k] - b[k] - c
         IN  IF d < 0 THEN <<d + Base>> \o NatBorrow(a, b, k + 1, 1)
                      ELSE <<d>> \o NatBorrow(a, b, k + 1, 0)

\* a - b for a >= b
NatSub(a, b) == NatBorrow(a, b, 1, 0)

RECURSIVE NatLtFrom(_, _, _)
NatLtFrom(a, b, k) ==
    IF k = 0 THEN FALSE
    ELSE IF a[k] # b[k] THEN a[k] < b[k]
    ELSE NatLtFrom(a, b, k - 1)

NatLt(a, b) == NatLtFrom(a, b, Len(a))
NatLe(a, b) == ~NatLt(b, a)
NatEq(a, b) == \A k \in Limbs : a[k] = b[k]

\* 2^e for e < 80
NatPow2(e) == [k \in Limbs |-> IF k = (e \div 16) + 1 THEN 2^(e % 16) ELSE 0]

\* a mod 2^w for w a multiple of 16
NatLowBits(a, w) == [k \in Limbs |-> IF k <= w \div 16 THEN a[k] ELSE 0]

RECURSIVE NatDiv10From(_, _, _)
\* long division by ten from limb k down, r the running remainder:
\* the quotient limbs k..1, most significant first, followed by the remainder
NatDiv10From(a, k, r) ==
    IF k = 0 THEN <<r>>
    ELSE LET t == r * Base + a[k]
         IN  <<t \div 10>> \o NatDiv10From(a, k - 1, t % 10)

NatDivMod10(a) ==
    LET qr == NatDiv10From(a, Len(a), 0)
    IN  [q |-> [k \in Limbs |-> qr[Len(a) + 1 - k]], r |-> qr[Len(a) + 1]]

RECURSIVE NatMulSmallFrom(_, _, _, _)
NatMulSmallFrom(a, m, k, c) ==
    IF k > Len(a) THEN <<>>
    ELSE LET t == a[k] * m + c
         IN  <<t % Base>> \o NatMulSmallFrom(a, m, k + 1, t \div Base)

\* a * m for a small factor m
NatMulSmall(a, m) == NatMulSmallFrom(a, m, 1, 0)

\* a mathematical integer
MkInt(neg, mag) == [neg |-> neg /\ ~NatEq(mag, NatZero), mag |-> mag]
IntOfNat(a) == MkInt(FALSE, a)
IntNeg(x) == MkInt(~x.neg, x.mag)
IntOfSmall(n) == IF n < 0 THEN MkInt(TRUE, NatOfSmall(-n)) ELSE MkInt(FALSE, NatOfSmall(n))
IntEq(x, y) == x.neg = y.neg /\ NatEq(x.mag, y.mag)
IntLt(x, y) ==
    IF x.neg /\ ~y.neg THEN TRUE
    ELSE IF ~x.neg /\ y.neg THEN FALSE
    ELSE IF x.neg THEN NatLt(y.mag, x.mag)
    ELSE NatLt(x.mag, y.mag)
IntLe(x, y) == ~IntLt(y, x)
IntAdd(x, y) ==
    IF x.neg = y.neg THEN MkInt(x.neg, NatAdd(x.mag, y.mag))
    ELSE IF NatLe(y.mag, x.mag) THEN MkInt(x.neg, NatSub(x.mag, y.mag))
    ELSE MkInt(y.neg, NatSub(y.mag, x.mag))
IntSub(x, y) == IntAdd(x, IntNeg(y))
IntPow2(e) == IntOfNat(NatPow2(e))

\* the ranges of the machine integer types
I64Min == IntNeg(IntPow2(63))
I64Max == IntSub(IntPow2(63), IntOfSmall(1))
U64Max == IntSub(IntPow2(64), IntOfSmall(1))
I32Min == IntNeg(IntPow2(31))
I32Max == IntSub(IntPow2(31), IntOfSmall(1))
InI64(x) == IntLe(I64Min, x) /\ IntLe(x, I64Max)
InU64(x) == ~x.neg /\ IntLe(x, U64Max)
InI32(x) == IntLe(I32Min, x) /\ IntLe(x, I32Max)

\* x mod 2^w in 0 .. 2^w - 1, for w a multiple of 16
ModPow2(x, w) ==
    LET low == NatLowBits(x.mag, w)
    IN  IF x.neg /\ ~NatEq(low, NatZero) THEN NatSub(NatPow2(w), low) ELSE low

\* an integer cast `x as iW`: the value is kept modulo 2^w and read as signed
WrapSigned(x, w) ==
    LET m == ModPow2(x, w)
    IN  IF NatLt(m, NatPow2(w - 1)) THEN IntOfNat(m)
        ELSE IntSub(IntOfNat(m), IntPow2(w))

\* a cast that saturates at the bounds of i64 instead of wrapping
U64AsI64_Saturating(v) == IF IntLt(I64Max, v) THEN I64Max ELSE v
\* `v as i64` of a u64
U64AsI64(v) == WrapSigned(v, 64)
\* a cast that saturates at the bounds of i32 instead of wrapping
I64AsI32_Saturating(i) ==
    IF IntLt(I32Max, i) THEN I32Max ELSE IF IntLt(i, I32Min) THEN I32Min ELSE i
\* `i as i32` of an i64
I64AsI32(i) == WrapSigned(i, 32)
\* `i as i64` of an i32
I32AsI64(i) == WrapSigned(i, 64)

(***************************************************************************)
(* Text.                                                                   *)
(***************************************************************************)
DecDigits == <<"0", "1", "2", "3", "4", "5", "6", "7", "8", "9">>
LowerHex == DecDigits \o <<"a", "b", "c", "d", "e", "f">>
UpperHex == DecDigits \o <<"A", "B", "C", "D", "E", "F">>

StartsWith(v, p) == Len(v) >= Len(p) /\ SubSeq(v, 1, Len(p)) = p
\* &v[n..]
SliceFrom(v, n) == SubSeq(v, n + 1, Len(v))

OidMarker == <<"$", "o", "i", "d", ":">>
OidKey == <<"$", "o", "i", "d">>

\* the decimal digits of a natural number, most significant first, none for zero
NatDigitsOf[a \in Seq(0..(Base - 1))] ==
    IF NatEq(a, NatZero) THEN <<>>
    ELSE LET d == NatDivMod10(a) IN NatDigitsOf[d.q] \o <<DecDigits[d.r + 1]>>

NatDigits(a) == NatDigitsOf[a]

\* i64::to_string
I64ToString(i) ==
    IF NatEq(i.mag, NatZero) THEN <<"0">>
    ELSE (IF i.neg THEN <<"-">> ELSE <<>>) \o NatDigits(i.mag)

(***************************************************************************)
(* bson::oid::ObjectId: 12 bytes, written as 24 hexadecimal characters.    *)
(***************************************************************************)
OidBytes == 12

\* the value of a hexadecimal digit of either case, -1 for any other character
HexVal(c) ==
    IF \E k \in 1..16 : LowerHex[k] = c THEN (CHOOSE k \in 1..16 : LowerHex[k] = c) - 1
    ELSE IF \E k \in 1..16 : UpperHex[k] = c THEN (CHOOSE k \in 1..16 : UpperHex[k] = c) - 1
    ELSE -1

\* ObjectId::to_hex
ToHex(o) == [k \in 1..(2 * Len(o)) |->
                IF k % 2 = 1 THEN LowerHex[(o[(k + 1) \div 2] \div 16) + 1]
                             ELSE LowerHex[(o[k \div 2] % 16) + 1]]

\* ObjectId::with_string: hex-decode, then require 12 bytes
OidWithString(s) ==
    IF Len(s) % 2 # 0 \/ \E k \in 1..Len(s) : HexVal(s[k]) < 0
    THEN [ok |-> FALSE]
    ELSE LET bytes == [k \in 1..(Len(s) \div 2) |->
                          16 * HexVal(s[2 * k - 1]) + HexVal(s[2 * k])]
         IN  IF Len(bytes) # OidBytes THEN [ok |-> FALSE]
             ELSE [ok |-> TRUE, oid |-> bytes]

(***************************************************************************)
(* The identifier.                                                         *)
(***************************************************************************)
IDObjectId(o) == [tag |-> "ObjectId", oid |-> o]
IDString(s) == [tag |-> "String", s |-> s]
IDI64(i) == [tag |-> "I64", i |-> i]
NoID == [tag |-> "None"]

\* an equality that compares what the identifiers render as
IDEq_ByRendering(a, b) ==
    (IF a.tag = "ObjectId" THEN ToHex(a.oid)
     ELSE IF a.tag = "String" THEN a.s ELSE I64ToString(a.i))
      = (IF b.tag = "ObjectId" THEN ToHex(b.oid)
         ELSE IF b.tag = "String" THEN b.s ELSE I64ToString(b.i))

\* #[derive(PartialEq)]: the same variant, then the same payload
IDEq(a, b) ==
    /\ a.tag = b.tag
    /\ a.tag = "ObjectId" => a.oid = b.oid
    /\ a.tag = "String" => a.s = b.s
    /\ a.tag = "I64" => IntEq(a.i, b.i)

(***************************************************************************)
(* The external value types.  Every record carries its kind, and a field   *)
(* name holds one type of value throughout: s text, i an integer, oid the  *)
(* bytes of an object id, b a boolean, entries the entries of a map.       *)
(***************************************************************************)
\* bson::Bson
BsonObjectId(o) == [kind |-> "Bson", t |-> "ObjectId", oid |-> o]
BsonString(s) == [kind |-> "Bson", t |-> "String", s |-> s]
BsonI64(i) == [kind |-> "Bson", t |-> "I64", i |-> i]
BsonI32(i) == [kind |-> "Bson", t |-> "I32", i |-> i]
BsonBoolean(b) == [kind |-> "Bson", t |-> "Boolean", b |-> b]
BsonNull == [kind |-> "Bson", t |-> "Null"]
BsonDocument(entries) == [kind |-> "Bson", t |-> "Document", entries |-> entries]

\* what Serialize hands to the serde Serializer
SerMap(entries) == [kind |-> "Ser", t |-> "map", entries |-> entries]
SerStr(s) == [kind |-> "Ser", t |-> "str", s |-> s]
SerI64(i) == [kind |-> "Ser", t |-> "i64", i |-> i]

\* what a self-describing serde Deserializer hands to the Visitor;
\* a map whose b is TRUE fails while its entries are read
DeMap(entries, broken) == [kind |-> "De", t |-> "map", entries |-> entries, b |-> broken]
DeStr(s) == [kind |-> "De", t |-> "str", s |-> s]
DeString(s) == [kind |-> "De", t |-> "string", s |-> s]
DeI64(i) == [kind |-> "De", t |-> "i64", i |-> i]
DeU64(i) == [kind |-> "De", t |-> "u64", i |-> i]
DeBool(b) == [kind |-> "De", t |-> "bool", b |-> b]
DeUnit == [kind |-> "De", t |-> "unit"]

\* juniper::Value, juniper::InputValue, juniper::parser::ScalarToken
ValueString(s) == [kind |-> "Value", t |-> "String", s |-> s]
ValueInt(i) == [kind |-> "Value", t |-> "Int", i |-> i]
InputScalarString(s) == [kind |-> "InputValue", t |-> "ScalarString", s |-> s]
InputScalarInt(i) == [kind |-> "InputValue", t |-> "ScalarInt", i |-> i]
InputScalarBoolean(b) == [kind |-> "InputValue", t |-> "ScalarBoolean", b |-> b]
InputNull == [kind |-> "InputValue", t |-> "Null"]
InputList == [kind |-> "InputValue", t |-> "List"]
TokenString(s) == [kind |-> "ScalarToken", t |-> "String", s |-> s]
TokenInt(s) == [kind |-> "ScalarToken", t |-> "Int", s |-> s]
TokenFloat(s) == [kind |-> "ScalarToken", t |-> "Float", s |-> s]
ParsedScalar(s) == [kind |-> "ParsedScalar", s |-> s]

\* plain values of the caller
Text(s) == [kind |-> "Text", s |-> s]
Oid(o) == [kind |-> "Oid", oid |-> o]
PlainInt(i) == [kind |-> "Int", i |-> i]
JuniperID(s) == [kind |-> "JuniperID", s |-> s]
Compared(other, b) == [kind |-> "Compared", other |-> other, b |-> b]
NoValue == [kind |-> "None"]

\* the outcome of an operation that yields an identifier
Ok(id) == [st |-> "ok", id |-> id]
Err == [st |-> "err", id |-> NoID]
Panic == [st |-> "panic", id |-> NoID]

(***************************************************************************)
(* The operations of ID.                                                   *)
(***************************************************************************)
from_string(value) == IDString(value)
with_string(value) == IDString(value)
with_i64(value) == IDI64(value)
with_oid(value) == IDObjectId(value)
FromString(s) == IDString(s)
FromI64(i) == IDI64(i)
FromObjectId(o) == IDObjectId(o)

\* ObjectId::with_string(..).unwrap()
with_string_to_oid(value) ==
    LET r == OidWithString(value)
    IN  IF r.ok THEN Ok(IDObjectId(r.oid)) ELSE Panic

with_bson(value) ==
    IF value.t = "String" THEN Ok(IDString(value.s))
    ELSE IF value.t = "ObjectId" THEN Ok(IDObjectId(value.oid))
    ELSE IF value.t = "I64" THEN Ok(IDI64(value.i))
    ELSE Panic

\* an encoder that writes an object id as its hex text
to_bson_OidAsString(id) ==
    IF id.tag = "ObjectId" THEN BsonString(ToHex(id.oid))
    ELSE IF id.tag = "String" THEN BsonString(id.s)
    ELSE BsonI64(id.i)

to_bson(id) ==
    IF id.tag = "ObjectId" THEN BsonObjectId(id.oid)
    ELSE IF id.tag = "String" THEN BsonString(id.s)
    ELSE BsonI64(id.i)

to_string(id) ==
    IF id.tag = "ObjectId" THEN ToHex(id.oid)
    ELSE IF id.tag = "String" THEN id.s
    ELSE I64ToString(id.i)

\* a conversion that writes an object id in the marked form of the scalar protocol
IntoString_Marked(id) ==
    IF id.tag = "ObjectId" THEN OidMarker \o ToHex(id.oid)
    ELSE IF id.tag = "String" THEN id.s
    ELSE I64ToString(id.i)

\* impl From<ID> for String
IntoString(id) ==
    IF id.tag = "ObjectId" THEN ToHex(id.oid)
    ELSE IF id.tag = "String" THEN id.s
    ELSE I64ToString(id.i)

\* a conversion that falls back to the all-zero object id instead of unwrapping
IntoObjectId_OrDefault(id) ==
    IF id.tag = "ObjectId" THEN Oid(id.oid)
    ELSE LET r == OidWithString(IF id.tag = "String" THEN id.s ELSE I64ToString(id.i))
         IN  IF r.ok THEN Oid(r.oid) ELSE Oid([k \in 1..OidBytes |-> 0])

\* impl From<ID> for ObjectId: the object id, or no value when an unwrap panics
IntoObjectId(id) ==
    IF id.tag = "ObjectId" THEN Oid(id.oid)
    ELSE LET r == OidWithString(IF id.tag = "String" THEN id.s ELSE I64ToString(id.i))
         IN  IF r.ok THEN Oid(r.oid) ELSE NoValue

\* impl From<juniper::ID> for ID, impl From<ID> for juniper::ID
FromJuniperID(j) == IDString(j.s)
IntoJuniperID(id) ==
    IF id.tag = "ObjectId" THEN JuniperID(ToHex(id.oid))
    ELSE IF id.tag = "String" THEN JuniperID(id.s)
    ELSE JuniperID(I64ToString(id.i))

\* a serializer that writes an object id as a bare hex string
Serialize_OidAsStr(id) ==
    IF id.tag = "ObjectId" THEN SerStr(ToHex(id.oid))
    ELSE IF id.tag = "String" THEN SerStr(id.s)
    ELSE SerI64(id.i)

\* impl Serialize for ID
Serialize(id) ==
    IF id.tag = "ObjectId" THEN SerMap(<< <<OidKey, ToHex(id.oid)>> >>)
    ELSE IF id.tag = "String" THEN SerStr(id.s)
    ELSE SerI64(id.i)

\* Bson::deserialize over the map: a single "$oid" entry holding an object
\* id in hex is the extended form of an object id, any other map a document
BsonDeserialize(m) ==
    IF m.b THEN [ok |-> FALSE]
    ELSE IF /\ Len(m.entries) = 1
            /\ m.entries[1][1] = OidKey
            /\ OidWithString(m.entries[1][2]).ok
         THEN [ok |-> TRUE, bson |-> BsonObjectId(OidWithString(m.entries[1][2]).oid)]
         ELSE [ok |-> TRUE, bson |-> BsonDocument(m.entries)]

visit_map(access) ==
    LET r == BsonDeserialize(access)
    IN  IF r.ok THEN with_bson(r.bson) ELSE Err

\* a visitor that keeps the stripped remainder when the parse fails
visit_str_Stripped(v) ==
    IF StartsWith(v, OidMarker)
    THEN LET r == OidWithString(SliceFrom(v, 5))
         IN  IF r.ok THEN Ok(IDObjectId(r.oid)) ELSE Ok(IDString(SliceFrom(v, 5)))
    ELSE Ok(IDString(v))

visit_str(v) ==
    IF StartsWith(v, OidMarker)
    THEN LET r == OidWithString(SliceFrom(v, 5))
         IN  IF r.ok THEN Ok(IDObjectId(r.oid)) ELSE Ok(IDString(v))
    ELSE Ok(IDString(v))

visit_string(v) ==
    IF StartsWith(v, OidMarker)
    THEN LET r == OidWithString(SliceFrom(v, 5))
         IN  IF r.ok THEN Ok(IDObjectId(r.oid)) ELSE Ok(IDString(v))
    ELSE Ok(IDString(v))

visit_i64(v) == Ok(IDI64(v))

visit_u64(v) == Ok(IDI64(U64AsI64(v)))

\* a resolver that leaves the marker out
resolve_NoMarker(id) ==
    IF id.tag = "ObjectId" THEN ValueString(ToHex(id.oid))
    ELSE IF id.tag = "String" THEN ValueString(id.s)
    ELSE ValueInt(I64AsI32(id.i))

\* graphql_scalar!: resolve, from_input_value, from_str
resolve(id) ==
    IF id.tag = "ObjectId" THEN ValueString(OidMarker \o ToHex(id.oid))
    ELSE IF id.tag = "String" THEN ValueString(id.s)
    ELSE ValueInt(I64AsI32(id.i))

from_input_value(v) ==
    IF v.t = "ScalarString"
    THEN IF StartsWith(v.s, OidMarker)
         THEN LET r == OidWithString(SliceFrom(v.s, 5))
              IN  IF r.ok THEN Ok(IDObjectId(r.oid)) ELSE Ok(IDString(v.s))
         ELSE Ok(IDString(v.s))
    ELSE IF v.t = "ScalarInt" THEN Ok(IDI64(I32AsI64(v.i)))
    ELSE Err

from_str(value) ==
    IF value.t \in {"String", "Int"} THEN ParsedScalar(value.s) ELSE NoValue

(***************************************************************************)
(* The inputs the operations are driven with.                              *)
(***************************************************************************)
\* 507f1f77bcf86cd799439011, then the all-zero id, then ids spread over the bytes
FirstOid == <<80, 127, 31, 119, 188, 248, 108, 215, 153, 67, 144, 17>>
OidSample(n) ==
    IF n = 1 THEN FirstOid
    ELSE [k \in 1..OidBytes |-> ((n - 2) * (FirstOid[k] + 29 * k)) % 256]
Oids == {OidSample(n) : n \in 1..MaxOids}

ToUpper(s) == [k \in 1..Len(s) |-> UpperHex[HexVal(s[k]) + 1]]

\* 24, 23 and 25 hexadecimal characters, 24 characters one of which is not
\* hexadecimal, in either case
HexTexts == {ToHex(o) : o \in Oids} \cup {ToUpper(ToHex(o)) : o \in Oids}
NearHexTexts ==
    UNION {{SubSeq(h, 1, Len(h) - 1), h \o <<"0">>, <<"g">> \o SubSeq(h, 2, Len(h)),
            <<"-">> \o SubSeq(h, 2, Len(h))} : h \in HexTexts}

Exponents == {0, 31, 32, 63, 64}
Deltas == (0 - MaxDelta)..MaxDelta
NearPowers ==
    UNION {{IntAdd(IntPow2(e), IntOfSmall(d)), IntNeg(IntAdd(IntPow2(e), IntOfSmall(d)))} :
              <<e, d>> \in Exponents \X Deltas}
           \cup {IntOfSmall(42)}
I64s == {x \in NearPowers : InI64(x)}
U64s == {x \in NearPowers : InU64(x)}
I32s == {x \in NearPowers : InI32(x)}

TextAlphabet == {"$", "7", "x"}
RECURSIVE TextsUpTo(_)
TextsUpTo(n) ==
    IF n = 0 THEN {<<>>}
    ELSE LET shorter == TextsUpTo(n - 1)
         IN  shorter \cup {t \o <<c>> : <<t, c>> \in shorter \X TextAlphabet}
FreeTexts == TextsUpTo(MaxTextLen) \cup {<<"h", "e", "l", "l", "o">>, OidKey}

Bodies == HexTexts \cup NearHexTexts \cup FreeTexts \cup {I64ToString(i) : i \in I64s}
Texts == Bodies \cup {OidMarker \o b : b \in Bodies}

IDs == {IDObjectId(o) : o \in Oids} \cup {IDString(s) : s \in Texts}
          \cup {IDI64(i) : i \in I64s}

Maps ==
    {DeMap(<< <<OidKey, h>> >>, FALSE) : h \in HexTexts \cup NearHexTexts}
      \cup {DeMap(<< <<OidKey, h>> >>, TRUE) : h \in HexTexts}
      \cup {DeMap(<< <<OidKey, h>>, <<OidKey, h>> >>, FALSE) : h \in HexTexts}
      \cup {DeMap(<< <<OidMarker, h>> >>, FALSE) : h \in HexTexts}
      \cup {DeMap(<<>>, FALSE)}

BsonInputs ==
    {BsonObjectId(o) : o \in Oids} \cup {BsonString(s) : s \in Texts}
      \cup {BsonI64(i) : i \in I64s} \cup {BsonI32(i) : i \in I32s}
      \cup {BsonBoolean(b) : b \in BOOLEAN} \cup {BsonNull}
      \cup {BsonDocument(m.entries) : m \in Maps}

OtherDeInputs == {DeBool(b) : b \in BOOLEAN} \cup {DeUnit}

InputValues ==
    {InputScalarString(s) : s \in Texts} \cup {InputScalarInt(i) : i \in I32s}
      \cup {InputScalarBoolean(b) : b \in BOOLEAN} \cup {InputNull, InputList}

ScalarTokens ==
    {TokenString(s) : s \in FreeTexts} \cup {TokenInt(I64ToString(i)) : i \in I32s}
      \cup {TokenFloat(<<"7">>)}

\* what a self-describing format presents to the Visitor for a value that was
\* written by Serialize: a text borrowed or owned, a non-negative number as
\* signed or as unsigned
Presentations(w) ==
    IF w.t = "map" THEN {DeMap(w.entries, FALSE)}
    ELSE IF w.t = "str" THEN {DeStr(w.s), DeString(w.s)}
    ELSE {DeI64(w.i)} \cup (IF w.i.neg THEN {} ELSE {DeU64(w.i)})

\* juniper hands a resolved scalar back as an input scalar
AsInputValue(w) ==
    IF w.t = "String" THEN InputScalarString(w.s) ELSE InputScalarInt(w.i)

(***************************************************************************)
(* A caller of the type.  It obtains an identifier from a value of its own *)
(* (a constructor, or a decoder run on a value from outside), then encodes,*)
(* converts or compares the identifier it holds, and may hand an encoded   *)
(* value back to the matching decoder.  Every operation reads only its     *)
(* argument, so a call made later in a session ends in a state that the    *)
(* same call made at this point of another session ends in.                *)
(*                                                                         *)
(*   op      the operation that ran last                                   *)
(*   id      the identifier held: the result of a constructor or decoder,  *)
(*           the argument of an encoder, conversion or comparison          *)
(*   val     the external value: the argument of a constructor or decoder, *)
(*           the result of an encoder, conversion or comparison            *)
(*   src     the identifier val is an encoding of, NoID for a value that   *)
(*           came from outside                                             *)
(*   status  "ok", "err" (an error value was returned) or "panic" (the     *)
(*           call unwound the thread)                                      *)
(***************************************************************************)
VARIABLES op, id, val, src, status
vars == <<op, id, val, src, status>>

Obtaining == {"from_string", "with_string", "From<String>", "with_i64", "From<i64>",
              "with_oid", "From<ObjectId>", "with_string_to_oid", "From<juniper::ID>",
              "with_bson", "visit_map", "visit_str", "visit_string", "visit_i64",
              "visit_u64", "from_input_value"}

AtStart == op = "init"
Holding == op \in Obtaining /\ status = "ok"

Init ==
    /\ op = "init"
    /\ id = NoID
    /\ val = NoValue
    /\ src = NoID
    /\ status = "ok"

\* a constructor that cannot fail
Construct(name, arg, new) ==
    /\ AtStart
    /\ op' = name
    /\ id' = new
    /\ val' = arg
    /\ src' = NoID
    /\ status' = "ok"

\* a decoder, or a constructor that can fail: r is its outcome on arg, from
\* the identifier that arg encodes
Decode(name, arg, r, from) ==
    /\ op' = name
    /\ id' = r.id
    /\ val' = arg
    /\ src' = from
    /\ status' = r.st

\* an encoder or conversion of the identifier held
Encode(name, out) ==
    /\ Holding
    /\ op' = name
    /\ id' = id
    /\ val' = out
    /\ src' = id
    /\ status' = IF out = NoValue THEN "panic" ELSE "ok"

FromStringCall == \E s \in Texts : Construct("from_string", Text(s), from_string(s))
WithStringCall == \E s \in Texts : Construct("with_string", Text(s), with_string(s))
FromStringTrait == \E s \in Texts : Construct("From<String>", Text(s), FromString(s))
WithI64Call == \E i \in I64s : Construct("with_i64", PlainInt(i), with_i64(i))
FromI64Trait == \E i \in I64s : Construct("From<i64>", PlainInt(i), FromI64(i))
WithOidCall == \E o \in Oids : Construct("with_oid", Oid(o), with_oid(o))
FromObjectIdTrait == \E o \in Oids : Construct("From<ObjectId>", Oid(o), FromObjectId(o))
FromJuniperIDTrait ==
    \E s \in Texts : Construct("From<juniper::ID>", JuniperID(s), FromJuniperID(JuniperID(s)))

WithStringToOidCall ==
    \E s \in Texts :
        AtStart /\ Decode("with_string_to_oid", Text(s), with_string_to_oid(s), NoID)

WithBsonCall ==
    \/ \E b \in BsonInputs : AtStart /\ Decode("with_bson", b, with_bson(b), NoID)
    \/ op = "to_bson" /\ Decode("with_bson", val, with_bson(val), src)

\* Deserialize: deserialize_any calls the Visitor method of the input's shape
VisitMap ==
    \/ \E m \in Maps : AtStart /\ Decode("visit_map", m, visit_map(m), NoID)
    \/ /\ op = "serialize"
       /\ \E m \in {d \in Presentations(val) : d.t = "map"} :
              Decode("visit_map", m, visit_map(m), src)

VisitStr ==
    \/ \E s \in Texts : AtStart /\ Decode("visit_str", DeStr(s), visit_str(s), NoID)
    \/ /\ op = "serialize"
       /\ \E d \in {d \in Presentations(val) : d.t = "str"} :
              Decode("visit_str", d, visit_str(d.s), src)

VisitString ==
    \/ \E s \in Texts : AtStart /\ Decode("visit_string", DeString(s), visit_string(s), NoID)
    \/ /\ op = "serialize"
       /\ \E d \in {d \in Presentations(val) : d.t = "string"} :
              Decode("visit_string", d, visit_string(d.s), src)

VisitI64 ==
    \/ \E i \in I64s : AtStart /\ Decode("visit_i64", DeI64(i), visit_i64(i), NoID)
    \/ /\ op = "serialize"
       /\ \E d \in {d \in Presentations(val) : d.t = "i64"} :
              Decode("visit_i64", d, visit_i64(d.i), src)

VisitU64 ==
    \/ \E u \in U64s : AtStart /\ Decode("visit_u64", DeU64(u), visit_u64(u), NoID)
    \/ /\ op = "serialize"
       /\ \E d \in {d \in Presentations(val) : d.t = "u64"} :
              Decode("visit_u64", d, visit_u64(d.i), src)

\* the Visitor's default methods reject every other shape
VisitOther ==
    \E d \in OtherDeInputs : AtStart /\ Decode("visit_other", d, Err, NoID)

FromInputValueCall ==
    \/ \E v \in InputValues :
           AtStart /\ Decode("from_input_value", v, from_input_value(v), NoID)
    \/ /\ op = "resolve"
       /\ Decode("from_input_value", AsInputValue(val), from_input_value(AsInputValue(val)), src)

FromStrCall ==
    \E k \in ScalarTokens :
        /\ AtStart
        /\ op' = "from_str"
        /\ val' = from_str(k)
        /\ status' = IF from_str(k) = NoValue THEN "err" ELSE "ok"
        /\ UNCHANGED <<id, src>>

ToBsonCall == Encode("to_bson", to_bson(id))
ToStringCall == Encode("to_string", Text(to_string(id)))
\* impl Display: writes to_string
FmtCall == Encode("fmt", Text(to_string(id)))
IntoStringTrait == Encode("From<ID> for String", Text(IntoString(id)))
IntoObjectIdTrait == Encode("From<ID> for ObjectId", IntoObjectId(id))
IntoJuniperIDTrait == Encode("From<ID> for juniper::ID", IntoJuniperID(id))
SerializeCall == Encode("serialize", Serialize(id))
ResolveCall == Encode("resolve", resolve(id))

\* ==, of the identifier held and another one
EqCall ==
    \E other \in IDs :
        /\ Holding
        /\ op' = "eq"
        /\ val' = Compared(other, IDEq(id, other))
        /\ src' = NoID
        /\ UNCHANGED <<id, status>>

Next ==
    \/ FromStringCall \/ WithStringCall \/ FromStringTrait
    \/ WithI64Call \/ FromI64Trait
    \/ WithOidCall \/ FromObjectIdTrait \/ FromJuniperIDTrait
    \/ WithStringToOidCall
    \/ WithBsonCall
    \/ VisitMap \/ VisitStr \/ VisitString \/ VisitI64 \/ VisitU64 \/ VisitOther
    \/ FromInputValueCall \/ FromStrCall
    \/ ToBsonCall \/ ToStringCall \/ FmtCall
    \/ IntoStringTrait \/ IntoObjectIdTrait \/ IntoJuniperIDTrait
    \/ SerializeCall \/ ResolveCall
    \/ EqCall

Spec == Init /\ [][Next]_vars

(***************************************************************************)
(* What the properties are stated with.                                    *)
(***************************************************************************)
Visits == {"visit_map", "visit_str", "visit_string", "visit_i64", "visit_u64"}

\* exactly 24 hexadecimal characters
IsHex24(t) == Len(t) = 24 /\ \A k \in 1..Len(t) : HexVal(t[k]) >= 0

\* o is the object id that the 24 hexadecimal characters of t write
IsOidOf(o, t) ==
    /\ Len(o) = 12
    /\ \A k \in 1..12 : o[k] = 16 * HexVal(t[2 * k - 1]) + HexVal(t[2 * k])

\* the text after the "$oid:" marker
AfterMarker(t) == SubSeq(t, 6, Len(t))
IsMarkedOid(t) == StartsWith(t, OidMarker) /\ IsHex24(AfterMarker(t))

\* the number that the decimal digits of t write
DecimalValue(t) ==
    LET value[k \in 0..Len(t)] ==
            IF k = 0 THEN NatZero
            ELSE NatAdd(NatMulSmall(value[k - 1], 10), NatOfSmall(HexVal(t[k])))
    IN  value[Len(t)]

\* t is the decimal form of i: a minus sign for a negative number only, then
\* digits with no leading zero
IsDecimalOf(t, i) ==
    LET digits == IF i.neg THEN SubSeq(t, 2, Len(t)) ELSE t
    IN  /\ i.neg => Len(t) > 1 /\ t[1] = "-"
        /\ Len(digits) >= 1
        /\ \A k \in 1..Len(digits) : \E d \in 1..10 : DecDigits[d] = digits[k]
        /\ Len(digits) > 1 => digits[1] # "0"
        /\ NatEq(DecimalValue(digits), i.mag)

\* x is a multiple of 2^32
IsMultipleOfPow32(x) == x.mag[1] = 0 /\ x.mag[2] = 0

\* the same variant and the same payload
SameVariantAndPayload(a, b) ==
    \/ a.tag = "ObjectId" /\ b.tag = "ObjectId" /\ a.oid = b.oid
    \/ a.tag = "String" /\ b.tag = "String" /\ a.s = b.s
    \/ a.tag = "I64" /\ b.tag = "I64" /\ a.i = b.i

(***************************************************************************)
(* The properties.                                                         *)
(***************************************************************************)

\* C1: the binary round trip is lossless: with_bson of the to_bson of an
\* identifier of any variant succeeds and returns an identifier of the same
\* variant and the same payload.
C1_BinaryRoundTrip ==
    (op = "with_bson" /\ src.tag # "None") =>
        status = "ok" /\ SameVariantAndPayload(id, src)

C1_Witness ==
    /\ op = "with_bson"
    /\ src.tag = "String"
    /\ IsMarkedOid(src.s)
    /\ id.tag = "String"

\* C2: visit_str and visit_string never fail on a text s; they yield the
\* object id of h when s is "$oid:" followed by 24 hexadecimal characters h,
\* String of the whole of s when s starts with "$oid:" and the rest is no
\* object id, and String(s) when s does not start with "$oid:".
C2_VisitText ==
    op \in {"visit_str", "visit_string"} =>
        /\ status = "ok"
        /\ IF IsMarkedOid(val.s)
           THEN id.tag = "ObjectId" /\ IsOidOf(id.oid, AfterMarker(val.s))
           ELSE id.tag = "String" /\ id.s = val.s

C2_Witness ==
    /\ op = "visit_string"
    /\ StartsWith(val.s, OidMarker)
    /\ Len(val.s) = 29
    /\ id.tag = "String"
    /\ id.s = val.s

\* C3 as stated: Serialize followed by Deserialize returns, for every
\* identifier, an identifier of the same variant and payload, also for a
\* String identifier whose text starts with "$oid:".
C3_StructuredRoundTrip ==
    (op \in Visits /\ src.tag # "None") =>
        status = "ok" /\ SameVariantAndPayload(id, src)

\* C3 amended: Serialize writes an ObjectId as the one-entry map {"$oid": hex},
\* a String as a bare string and an I64 as a bare number, and Deserialize of
\* that returns an identifier of the same variant and payload, except for a
\* String whose text is "$oid:" followed by 24 hexadecimal characters, which
\* comes back as the ObjectId those characters write.
C3_StructuredRoundTripAmended ==
    /\ op = "serialize" =>
        /\ id.tag = "ObjectId" =>
              /\ val.t = "map"
              /\ Len(val.entries) = 1
              /\ val.entries[1][1] = <<"$", "o", "i", "d">>
              /\ IsHex24(val.entries[1][2])
              /\ IsOidOf(id.oid, val.entries[1][2])
        /\ id.tag = "String" => val.t = "str" /\ val.s = id.s
        /\ id.tag = "I64" => val.t = "i64" /\ val.i = id.i
    /\ (op \in Visits /\ src.tag # "None") =>
        /\ status = "ok"
        /\ IF src.tag = "String" /\ IsMarkedOid(src.s)
           THEN id.tag = "ObjectId" /\ IsOidOf(id.oid, AfterMarker(src.s))
           ELSE SameVariantAndPayload(id, src)

C3_Witness ==
    /\ op = "visit_str"
    /\ src.tag = "String"
    /\ StartsWith(src.s, OidMarker)
    /\ Len(src.s) = 29
    /\ id.tag = "String"
    /\ id.s = src.s

\* C4: resolve of an ObjectId is the plain string "$oid:" followed by the 24
\* hexadecimal characters of the object id, and from_input_value of that
\* string scalar returns the same ObjectId.
C4_ScalarObjectId ==
    /\ (op = "resolve" /\ id.tag = "ObjectId") =>
        /\ val.t = "String"
        /\ IsMarkedOid(val.s)
        /\ IsOidOf(id.oid, AfterMarker(val.s))
    /\ (op = "from_input_value" /\ src.tag = "ObjectId") =>
        status = "ok" /\ SameVariantAndPayload(id, src)

C4_Witness ==
    /\ op = "from_input_value"
    /\ src.tag = "ObjectId"
    /\ id.tag = "ObjectId"
    /\ val.t = "ScalarString"
    /\ IsMarkedOid(val.s)

\* C5: every decode or convert failure is returned as an error value, and no
\* operation panics.
C5_NoPanic == status # "panic"

\* C6: two identifiers are equal exactly when they have the same variant and
\* the same payload; identifiers of different variants are unequal also when
\* to_string renders them alike.
C6_Equality ==
    op = "eq" =>
        /\ val.b <=> SameVariantAndPayload(id, val.other)
        /\ (id.tag # val.other.tag /\ to_string(id) = to_string(val.other)) => ~val.b

C6_Witness ==
    /\ op = "eq"
    /\ id.tag = "I64"
    /\ val.other.tag = "String"
    /\ IsDecimalOf(val.other.s, id.i)
    /\ ~val.b

\* C7: to_string and From<ID> for String always succeed and return the same
\* string: the 24 lower-case hexadecimal characters of an ObjectId with no
\* marker, the text of a String, the decimal digits of an I64.
C7_CanonicalString ==
    op \in {"to_string", "From<ID> for String"} =>
        /\ status = "ok"
        /\ val.kind = "Text"
        /\ val.s = to_string(id)
        /\ val.s = IntoString(id)
        /\ id.tag = "ObjectId" =>
              /\ IsHex24(val.s)
              /\ IsOidOf(id.oid, val.s)
              /\ \A k \in 1..Len(val.s) : \E d \in 1..16 : LowerHex[d] = val.s[k]
        /\ id.tag = "String" => val.s = id.s
        /\ id.tag = "I64" => IsDecimalOf(val.s, id.i)

C7_Witness ==
    /\ op = "From<ID> for String"
    /\ id.tag = "I64"
    /\ id.i.neg
    /\ Len(val.s) = 20

\* C8: visit_u64 never fails: it yields I64(u) for u <= 2^63 - 1 and
\* I64(u - 2^64), a negative identifier, for u > 2^63 - 1.
C8_VisitU64 ==
    op = "visit_u64" =>
        /\ status = "ok"
        /\ id.tag = "I64"
        /\ InI64(id.i)
        /\ IntLe(val.i, IntSub(IntPow2(63), IntOfSmall(1))) => IntEq(id.i, val.i)
        /\ IntLt(IntSub(IntPow2(63), IntOfSmall(1)), val.i) =>
              id.i.neg /\ IntEq(IntAdd(id.i, IntPow2(64)), val.i)

C8_Witness ==
    /\ op = "visit_u64"
    /\ IntLt(IntPow2(63), val.i)
    /\ id.tag = "I64"
    /\ id.i.neg

\* C9: resolve of I64(i) is a numeric scalar within the signed 32-bit range;
\* it equals i for i within that range, so that from_input_value of it
\* returns I64(i), and is congruent to i modulo 2^32 otherwise.
C9_ScalarI64 ==
    /\ (op = "resolve" /\ id.tag = "I64") =>
        /\ val.t = "Int"
        /\ InI32(val.i)
        /\ IsMultipleOfPow32(IntSub(id.i, val.i))
        /\ InI32(id.i) => IntEq(val.i, id.i)
    /\ (op = "from_input_value" /\ src.tag = "I64" /\ InI32(src.i)) =>
        status = "ok" /\ SameVariantAndPayload(id, src)

C9_Witness ==
    /\ op = "resolve"
    /\ id.tag = "I64"
    /\ ~InI32(id.i)
    /\ val.t = "Int"
    /\ ~IntEq(val.i, id.i)

\* C10: From<ID> for ObjectId yields no object id for any I64, whose decimal
\* form has at most 20 characters; it yields one exactly for an ObjectId and
\* for a String of exactly 24 hexadecimal characters.
C10_I64NeverObjectId ==
    op = "From<ID> for ObjectId" =>
        /\ id.tag = "I64" => Len(I64ToString(id.i)) <= 20 /\ status # "ok"
        /\ status = "ok" <=>
              \/ id.tag = "ObjectId"
              \/ id.tag = "String" /\ IsHex24(id.s)

C10_Witness ==
    /\ op = "From<ID> for ObjectId"
    /\ id.tag = "I64"
    /\ Len(I64ToString(id.i)) = 20
    /\ status = "panic"
====
